---- MODULE Spec2Model ----
(***************************************************************************)
(* bookmarks-alive-exporter: the scrape pipeline.  A scrape request reads  *)
(* the bookmark URLs from the store, probes them with a fixed pool of      *)
(* workers, drains the results into the gauge vector and serves it.        *)
(* Each goroutine is a process of the model; each channel operation,       *)
(* select arm and gauge write is one atomic step.                          *)
(***************************************************************************)
EXTENDS Integers, Sequences, FiniteSets, TLC

\* ---------------------------------------------------------------- bounds
\* The pool size, the queue capacities and the store are scaled down so
\* that a store larger than the result channel can be explored.
workerCount == 2        \* 20 in the source
urlChanCap == 1         \* 100 in the source
metricsChanCap == 2     \* 1000 in the source
MaxRows == 3            \* rows in the store when one scrape is served
MaxRowsOverlap == 1     \* rows in the store when two scrapes overlap

URLs == {"a", "b"}
BadRow == "bad"         \* a row whose Scan fails
Rows == URLs \cup {BadRow}
NoURL == "-"
Status == {200}         \* what a probe that got a response returns
Sentinel == 0           \* what a probe that got none returns
Scrapes == {"s1", "s2"} \* the request goroutines of the HTTP server
Absent == [status |-> -1, run |-> "-", seq |-> 0, late |-> FALSE, by |-> "-"]
NoUpdate == [url |-> NoURL, status |-> 0, run |-> "-", seq |-> 0, late |-> FALSE]

VARIABLES
    build,        \* which source file is built: "ctx" (part_000) or "main" (main.go)
    store,        \* the rows of SELECT url FROM bookmarks
    clients,      \* the scrape requests that arrive
    hpc,          \* hpc[r]: where the handler of request r is
    cpc,          \* cpc[r]: main.go's collectMetrics goroutine of request r
    ctx,          \* ctx[r]: the request's context
    rows,         \* rows[r]: what the run's row iterator has left
    feeder,       \* feeder[r]: the feeder goroutine
    urlChan,      \* urlChan[r]: the run's URL queue
    wk,           \* wk[r][w]: the worker goroutines of the run
    metricsChan,  \* the process-wide result channel
    held,         \* held[r]: the update a drain pass received and has not set
    urlStatus,    \* the gauge vector, by url label
    sent,         \* history: sent[r][u], results run r put on metricsChan for u
    finished      \* history: finished[r], probes of run r that returned

vars == <<build, store, clients, hpc, cpc, ctx, rows, feeder, urlChan, wk, metricsChan,
          held, urlStatus, sent, finished>>

\* ------------------------------------------------------------- helpers
WorkerIds == 0..workerCount

Stores(n) == UNION {[1..k -> Rows] : k \in 0..n}

ctxDone(r) == ctx[r] \in {"deadline", "cancelled"}

IdleWorker == [pc |-> "none", url |-> NoURL, status |-> 0, late |-> FALSE]

AtPc(p) == [pc |-> p, url |-> NoURL, status |-> 0, late |-> FALSE]

SumOver(f, S) ==
    LET RECURSIVE Sum(_)
        Sum(T) == IF T = {} THEN 0
                  ELSE LET x == CHOOSE y \in T : TRUE IN f[x] + Sum(T \ {x})
    IN Sum(S)

TotalSent == SumOver([r \in Scrapes |-> SumOver(sent[r], URLs)], Scrapes)

\* A start loop that runs once too often.
SpawnedWorkersOffByOne == 0..workerCount

\* The workers started by collectMetrics' loop.
SpawnedWorkers == 1..workerCount

\* A channel that hands out the newest element first.
ChanSendFront(q, m) == <<m>> \o q

\* A buffered channel: a send appends, a receive takes the head.
ChanSend(q, m) == Append(q, m)

ChanHead(q) == Head(q)

ChanRest(q) == Tail(q)

\* checkURL: the status of the response, or 0 when the request failed; with
\* the context done the request is aborted.
checkURL(r) == IF ctxDone(r) THEN {Sentinel} ELSE Status \cup {Sentinel}

\* ---------------------------------------------------------------- Init
Init ==
    /\ \/ clients = {"s1"} /\ store \in Stores(MaxRows)
       \/ clients = Scrapes /\ store \in Stores(MaxRowsOverlap)
    /\ build \in {"ctx", "main"}
    /\ hpc = [r \in Scrapes |-> "idle"]
    /\ cpc = [r \in Scrapes |-> "none"]
    /\ ctx = [r \in Scrapes |-> "none"]
    /\ rows = [r \in Scrapes |-> <<>>]
    /\ feeder = [r \in Scrapes |-> [pc |-> "none", url |-> NoURL]]
    /\ urlChan = [r \in Scrapes |-> [buf |-> <<>>, closed |-> FALSE]]
    /\ wk = [r \in Scrapes |-> [w \in WorkerIds |-> IdleWorker]]
    /\ metricsChan = <<>>
    /\ held = [r \in Scrapes |-> NoUpdate]
    /\ urlStatus = [u \in URLs |-> Absent]
    /\ sent = [r \in Scrapes |-> [u \in URLs |-> 0]]
    /\ finished = [r \in Scrapes |-> [live |-> 0, late |-> 0]]

\* ------------------------------------------------------ metricsHandler
\* A request arrives: the handler derives its context with the 30 s timeout.
HandlerStart(r) ==
    /\ build = "ctx"
    /\ r \in clients
    /\ hpc[r] = "idle"
    /\ hpc' = [hpc EXCEPT ![r] = "query"]
    /\ ctx' = [ctx EXCEPT ![r] = "live"]
    /\ UNCHANGED <<build, store, clients, cpc, rows, feeder, urlChan, wk, metricsChan,
                   held, urlStatus, sent, finished>>

\* The context's timer fires (or the client goes away) while the handler runs.
Deadline(r) ==
    /\ ctx[r] = "live"
    /\ ctx' = [ctx EXCEPT ![r] = "deadline"]
    /\ UNCHANGED <<build, store, clients, cpc, hpc, rows, feeder, urlChan, wk, metricsChan,
                   held, urlStatus, sent, finished>>

\* The deferred cancel() of the handler.
Cancel(r) == [ctx EXCEPT ![r] = IF ctx[r] = "live" THEN "cancelled" ELSE ctx[r]]

\* A collectMetrics that looks at the query's error only after it has
\* started the workers and the feeder.
QueryFailAfterSpawn(r) ==
    /\ hpc[r] = "query"
    /\ hpc' = [hpc EXCEPT ![r] = "error"]
    /\ ctx' = Cancel(r)
    /\ wk' = [wk EXCEPT ![r] = [w \in WorkerIds |->
                 IF w \in 1..workerCount THEN AtPc("recv") ELSE IdleWorker]]
    /\ feeder' = [feeder EXCEPT ![r] = [pc |-> "next", url |-> NoURL]]
    /\ UNCHANGED <<build, store, clients, cpc, rows, urlChan, metricsChan,
                   held, urlStatus, sent, finished>>

\* db.QueryContext fails: collectMetrics returns the error, the handler
\* answers 500 and returns.
QueryFail(r) ==
    /\ hpc[r] = "query"
    /\ hpc' = [hpc EXCEPT ![r] = "error"]
    /\ ctx' = Cancel(r)
    /\ UNCHANGED <<build, store, clients, cpc, rows, feeder, urlChan, wk, metricsChan,
                   held, urlStatus, sent, finished>>

\* db.QueryContext succeeds (it fails on a context that is done):
\* collectMetrics makes the URL queue and starts the workers and the feeder.
QueryOK(r) ==
    /\ hpc[r] = "query"
    /\ ~ctxDone(r)
    /\ hpc' = [hpc EXCEPT ![r] = "collect"]
    /\ rows' = [rows EXCEPT ![r] = store]
    /\ urlChan' = [urlChan EXCEPT ![r] = [buf |-> <<>>, closed |-> FALSE]]
    /\ wk' = [wk EXCEPT ![r] = [w \in WorkerIds |->
                 IF w \in SpawnedWorkers THEN AtPc("recv") ELSE IdleWorker]]
    /\ feeder' = [feeder EXCEPT ![r] = [pc |-> "next", url |-> NoURL]]
    /\ UNCHANGED <<build, store, clients, cpc, ctx, metricsChan, held, urlStatus, sent,
                   finished>>

\* ------------------------------------------------------------- feeder
\* rows.Next() yields a row and rows.Scan reads it; a row that does not
\* scan is skipped.  Once collectMetrics has returned, its deferred
\* rows.Close() has run and rows.Next() yields nothing.
FeederNext(r) ==
    /\ feeder[r].pc = "next"
    /\ rows[r] # <<>>
    /\ build = "ctx" => hpc[r] = "collect"
    /\ rows' = [rows EXCEPT ![r] = Tail(rows[r])]
    /\ feeder' = [feeder EXCEPT ![r] =
                     IF Head(rows[r]) = BadRow THEN [pc |-> "next", url |-> NoURL]
                     ELSE [pc |-> "send", url |-> Head(rows[r])]]
    /\ UNCHANGED <<build, store, clients, cpc, hpc, ctx, urlChan, wk, metricsChan, held,
                   urlStatus, sent, finished>>

\* rows.Next() is false (no row left, or the context is done and the rows
\* were closed): the feeder returns and its deferred close(urlChan) runs.
FeederEnd(r) ==
    /\ feeder[r].pc = "next"
    /\ rows[r] = <<>> \/ ctxDone(r)
    /\ feeder' = [feeder EXCEPT ![r] = [pc |-> "done", url |-> NoURL]]
    /\ urlChan' = [urlChan EXCEPT ![r].closed = TRUE]
    /\ UNCHANGED <<build, store, clients, cpc, hpc, ctx, rows, wk, metricsChan, held,
                   urlStatus, sent, finished>>

\* select arm: urlChan <- url.
FeederSend(r) ==
    /\ feeder[r].pc = "send"
    /\ Len(urlChan[r].buf) < urlChanCap
    /\ urlChan' = [urlChan EXCEPT ![r].buf = ChanSend(@, feeder[r].url)]
    /\ feeder' = [feeder EXCEPT ![r] = [pc |-> "next", url |-> NoURL]]
    /\ UNCHANGED <<build, store, clients, cpc, hpc, ctx, rows, wk, metricsChan, held,
                   urlStatus, sent, finished>>

\* A feeder that sends with a plain urlChan <- url: it has no arm for
\* <-ctx.Done() and never leaves the send on cancellation.
FeederCancelNever(r) ==
    /\ feeder[r].pc = "send"
    /\ FALSE
    /\ UNCHANGED vars

\* select arm: <-ctx.Done(); the feeder returns and closes the queue.
FeederCancel(r) ==
    /\ feeder[r].pc = "send"
    /\ ctxDone(r)
    /\ feeder' = [feeder EXCEPT ![r] = [pc |-> "done", url |-> NoURL]]
    /\ urlChan' = [urlChan EXCEPT ![r].closed = TRUE]
    /\ UNCHANGED <<build, store, clients, cpc, hpc, ctx, rows, wk, metricsChan, held,
                   urlStatus, sent, finished>>

\* --------------------------------------------------------- urlChecker
\* A worker that reads the head of the queue without taking it off.
WorkerRecvPeek(r, w) ==
    /\ wk[r][w].pc = "recv"
    /\ urlChan[r].buf # <<>>
    /\ wk' = [wk EXCEPT ![r][w] = [pc |-> "probe", url |-> Head(urlChan[r].buf),
                                    status |-> 0, late |-> FALSE]]
    /\ UNCHANGED <<build, store, clients, cpc, hpc, ctx, rows, feeder, urlChan,
                   metricsChan, held, urlStatus, sent, finished>>

\* select arm: url, ok := <-urls with a URL; the worker enters checkURL.
WorkerRecv(r, w) ==
    /\ wk[r][w].pc = "recv"
    /\ urlChan[r].buf # <<>>
    /\ wk' = [wk EXCEPT ![r][w] = [pc |-> "probe", url |-> ChanHead(urlChan[r].buf),
                                    status |-> 0, late |-> FALSE]]
    /\ urlChan' = [urlChan EXCEPT ![r].buf = ChanRest(@)]
    /\ UNCHANGED <<build, store, clients, cpc, hpc, ctx, rows, feeder, metricsChan, held,
                   urlStatus, sent, finished>>

\* select arm: <-urls on the closed, empty queue; the worker returns.
WorkerClosed(r, w) ==
    /\ wk[r][w].pc = "recv"
    /\ urlChan[r].buf = <<>>
    /\ urlChan[r].closed
    /\ wk' = [wk EXCEPT ![r][w] = AtPc("exit")]
    /\ UNCHANGED <<build, store, clients, cpc, hpc, ctx, rows, feeder, urlChan, metricsChan,
                   held, urlStatus, sent, finished>>

\* A worker whose send is not in a select with ctx.Done().
WorkerCancelRecvOnly(r, w) ==
    /\ wk[r][w].pc = "recv"
    /\ ctxDone(r)
    /\ wk' = [wk EXCEPT ![r][w] = AtPc("exit")]
    /\ UNCHANGED <<build, store, clients, cpc, hpc, ctx, rows, feeder, urlChan,
                   metricsChan, held, urlStatus, sent, finished>>

\* select arm: <-ctx.Done(), in either select; the worker returns and a
\* result it holds is dropped.
WorkerCancel(r, w) ==
    /\ wk[r][w].pc \in {"recv", "send"}
    /\ ctxDone(r)
    /\ wk' = [wk EXCEPT ![r][w] = AtPc("exit")]
    /\ UNCHANGED <<build, store, clients, cpc, hpc, ctx, rows, feeder, urlChan, metricsChan,
                   held, urlStatus, sent, finished>>

\* checkURL returns.
ProbeDone(r, w) ==
    /\ wk[r][w].pc = "probe"
    /\ \E s \in checkURL(r) :
          wk' = [wk EXCEPT ![r][w] = [pc |-> "send", url |-> wk[r][w].url,
                                       status |-> s, late |-> ctxDone(r)]]
    /\ finished' = [finished EXCEPT ![r] =
                       IF ctxDone(r) THEN [@ EXCEPT !.late = @ + 1]
                       ELSE [@ EXCEPT !.live = @ + 1]]
    /\ UNCHANGED <<build, store, clients, cpc, hpc, ctx, rows, feeder, urlChan, metricsChan,
                   held, urlStatus, sent>>

\* A worker whose send does not block: with the result channel full the
\* result is dropped and the worker goes on to the next URL.
WorkerSendOrDrop(r, w) ==
    /\ wk[r][w].pc = "send"
    /\ IF Len(metricsChan) < metricsChanCap
       THEN /\ metricsChan' = ChanSend(metricsChan,
                                [url |-> wk[r][w].url, status |-> wk[r][w].status,
                                 run |-> r, seq |-> TotalSent + 1,
                                 late |-> wk[r][w].late])
            /\ sent' = [sent EXCEPT ![r][wk[r][w].url] = @ + 1]
       ELSE UNCHANGED <<metricsChan, sent>>
    /\ wk' = [wk EXCEPT ![r][w] = AtPc("recv")]
    /\ UNCHANGED <<build, store, clients, cpc, hpc, ctx, rows, feeder, urlChan, held,
                   urlStatus, finished>>

\* select arm: updates <- metricUpdate{url, status}.
WorkerSend(r, w) ==
    /\ wk[r][w].pc = "send"
    /\ Len(metricsChan) < metricsChanCap
    /\ metricsChan' = ChanSend(metricsChan,
                         [url |-> wk[r][w].url, status |-> wk[r][w].status,
                          run |-> r, seq |-> TotalSent + 1, late |-> wk[r][w].late])
    /\ sent' = [sent EXCEPT ![r][wk[r][w].url] = @ + 1]
    /\ wk' = [wk EXCEPT ![r][w] = AtPc("recv")]
    /\ UNCHANGED <<build, store, clients, cpc, hpc, ctx, rows, feeder, urlChan, held,
                   urlStatus, finished>>

\* ------------------------------------------- collectMetrics, the join
\* A collectMetrics that returns as soon as the context is done, without
\* waiting for the pool.
WaitReturnNoJoin(r) ==
    /\ hpc[r] = "collect"
    /\ \/ \A w \in WorkerIds : wk[r][w].pc \in {"none", "exit"}
       \/ ctxDone(r)
    /\ hpc' = [hpc EXCEPT ![r] = "update"]
    /\ UNCHANGED <<build, store, clients, cpc, ctx, rows, feeder, urlChan, wk,
                   metricsChan, held, urlStatus, sent, finished>>

\* A collectMetrics that returns ctx.Err() after the join.
WaitReturnCtxErr(r) ==
    /\ hpc[r] = "collect"
    /\ \A w \in WorkerIds : wk[r][w].pc \in {"none", "exit"}
    /\ hpc' = [hpc EXCEPT ![r] = IF ctxDone(r) THEN "error" ELSE "update"]
    /\ UNCHANGED <<build, store, clients, cpc, ctx, rows, feeder, urlChan, wk,
                   metricsChan, held, urlStatus, sent, finished>>

\* wg.Wait() returns: every worker has called wg.Done(); collectMetrics
\* returns nil and the handler calls updateMetrics.
WaitReturn(r) ==
    /\ hpc[r] = "collect"
    /\ \A w \in WorkerIds : wk[r][w].pc \in {"none", "exit"}
    /\ hpc' = [hpc EXCEPT ![r] = "update"]
    /\ UNCHANGED <<build, store, clients, cpc, ctx, rows, feeder, urlChan, wk, metricsChan,
                   held, urlStatus, sent, finished>>

\* ------------------------------------------------------ updateMetrics
\* select arm: update := <-metricsChan.
DrainRecv(r) ==
    /\ hpc[r] = "update"
    /\ metricsChan # <<>>
    /\ held' = [held EXCEPT ![r] = ChanHead(metricsChan)]
    /\ metricsChan' = ChanRest(metricsChan)
    /\ hpc' = [hpc EXCEPT ![r] = "apply"]
    /\ UNCHANGED <<build, store, clients, cpc, ctx, rows, feeder, urlChan, wk, urlStatus,
                   sent, finished>>

\* An updateMetrics that calls urlStatus.Reset() before it Sets the value.
DrainApplyReset(r) ==
    /\ hpc[r] = "apply"
    /\ urlStatus' = [u \in URLs |->
                        IF u = held[r].url
                        THEN [status |-> held[r].status, run |-> held[r].run,
                              seq |-> held[r].seq, late |-> held[r].late, by |-> r]
                        ELSE Absent]
    /\ held' = [held EXCEPT ![r] = NoUpdate]
    /\ hpc' = [hpc EXCEPT ![r] = "update"]
    /\ UNCHANGED <<build, store, clients, cpc, ctx, rows, feeder, urlChan, wk,
                   metricsChan, sent, finished>>

\* urlStatus.WithLabelValues(update.url).Set(update.status).
DrainApply(r) ==
    /\ hpc[r] = "apply"
    /\ urlStatus' = [urlStatus EXCEPT ![held[r].url] =
                        [status |-> held[r].status, run |-> held[r].run,
                         seq |-> held[r].seq, late |-> held[r].late, by |-> r]]
    /\ held' = [held EXCEPT ![r] = NoUpdate]
    /\ hpc' = [hpc EXCEPT ![r] = "update"]
    /\ UNCHANGED <<build, store, clients, cpc, ctx, rows, feeder, urlChan, wk, metricsChan,
                   sent, finished>>

\* An updateMetrics that applies at most what it likes: its default arm is
\* taken although a result is buffered.
DrainReturnEarly(r) ==
    /\ build = "ctx"
    /\ hpc[r] = "update"
    /\ hpc' = [hpc EXCEPT ![r] = "serve"]
    /\ UNCHANGED <<build, store, clients, cpc, ctx, rows, feeder, urlChan, wk,
                   metricsChan, held, urlStatus, sent, finished>>

\* An updateMetrics whose select has no default arm.
DrainReturnNoDefault(r) ==
    /\ build = "ctx"
    /\ hpc[r] = "update"
    /\ ctxDone(r)
    /\ hpc' = [hpc EXCEPT ![r] = "serve"]
    /\ UNCHANGED <<build, store, clients, cpc, ctx, rows, feeder, urlChan, wk,
                   metricsChan, held, urlStatus, sent, finished>>

\* select arms: <-ctx.Done(), or default when nothing else is ready.
DrainReturn(r) ==
    /\ build = "ctx"
    /\ hpc[r] = "update"
    /\ ctxDone(r) \/ metricsChan = <<>>
    /\ hpc' = [hpc EXCEPT ![r] = "serve"]
    /\ UNCHANGED <<build, store, clients, cpc, ctx, rows, feeder, urlChan, wk, metricsChan,
                   held, urlStatus, sent, finished>>

\* promhttp serves the gauge vector; the handler returns and cancel() runs.
Serve(r) ==
    /\ hpc[r] = "serve"
    /\ hpc' = [hpc EXCEPT ![r] = "done"]
    /\ ctx' = Cancel(r)
    /\ UNCHANGED <<build, store, clients, cpc, rows, feeder, urlChan, wk, metricsChan,
                   held, urlStatus, sent, finished>>

\* --------------------------------------------------- main.go, the handler
\* main.go's handler: it starts collectMetrics in a goroutine of its own and
\* waits for its done signal or for time.After(30 s).
MHandlerStart(r) ==
    /\ build = "main"
    /\ r \in clients
    /\ hpc[r] = "idle"
    /\ hpc' = [hpc EXCEPT ![r] = "wait"]
    /\ cpc' = [cpc EXCEPT ![r] = "query"]
    /\ UNCHANGED <<build, store, clients, ctx, rows, feeder, urlChan, wk,
                   metricsChan, held, urlStatus, sent, finished>>

\* select arm: <-timeout.
MTimeout(r) ==
    /\ hpc[r] = "wait"
    /\ hpc' = [hpc EXCEPT ![r] = "update"]
    /\ UNCHANGED <<build, store, clients, cpc, ctx, rows, feeder, urlChan, wk,
                   metricsChan, held, urlStatus, sent, finished>>

\* select arm: <-done, meeting collectMetrics' send on the unbuffered channel.
MDone(r) ==
    /\ hpc[r] = "wait"
    /\ cpc[r] = "signal"
    /\ hpc' = [hpc EXCEPT ![r] = "update"]
    /\ cpc' = [cpc EXCEPT ![r] = "exit"]
    /\ UNCHANGED <<build, store, clients, ctx, rows, feeder, urlChan, wk,
                   metricsChan, held, urlStatus, sent, finished>>

\* main.go's collectMetrics: db.Query fails, it goes to signal done.
MQueryFail(r) ==
    /\ cpc[r] = "query"
    /\ cpc' = [cpc EXCEPT ![r] = "signal"]
    /\ UNCHANGED <<build, store, clients, hpc, ctx, rows, feeder, urlChan, wk,
                   metricsChan, held, urlStatus, sent, finished>>

\* main.go's collectMetrics: db.Query succeeds, the workers and the feeder start.
MQueryOK(r) ==
    /\ cpc[r] = "query"
    /\ cpc' = [cpc EXCEPT ![r] = "wait"]
    /\ rows' = [rows EXCEPT ![r] = store]
    /\ urlChan' = [urlChan EXCEPT ![r] = [buf |-> <<>>, closed |-> FALSE]]
    /\ wk' = [wk EXCEPT ![r] = [w \in WorkerIds |->
                 IF w \in SpawnedWorkers THEN AtPc("recv") ELSE IdleWorker]]
    /\ feeder' = [feeder EXCEPT ![r] = [pc |-> "next", url |-> NoURL]]
    /\ UNCHANGED <<build, store, clients, hpc, ctx, metricsChan, held, urlStatus,
                   sent, finished>>

\* main.go's collectMetrics: wg.Wait() returns, it goes to signal done.
MWaitReturn(r) ==
    /\ cpc[r] = "wait"
    /\ \A w \in WorkerIds : wk[r][w].pc \in {"none", "exit"}
    /\ cpc' = [cpc EXCEPT ![r] = "signal"]
    /\ UNCHANGED <<build, store, clients, hpc, ctx, rows, feeder, urlChan, wk,
                   metricsChan, held, urlStatus, sent, finished>>

\* main.go's updateMetrics, select arm: default.
MDrainReturn(r) ==
    /\ build = "main"
    /\ hpc[r] = "update"
    /\ metricsChan = <<>>
    /\ hpc' = [hpc EXCEPT ![r] = "serve"]
    /\ UNCHANGED <<build, store, clients, cpc, ctx, rows, feeder, urlChan, wk,
                   metricsChan, held, urlStatus, sent, finished>>

\* ----------------------------------------------------------------- Next
Handler(r) ==
    \/ HandlerStart(r)
    \/ QueryFail(r)
    \/ QueryOK(r)
    \/ WaitReturn(r)
    \/ DrainRecv(r)
    \/ DrainApply(r)
    \/ DrainReturn(r)
    \/ Serve(r)

Feeder(r) ==
    \/ FeederNext(r)
    \/ FeederEnd(r)
    \/ FeederSend(r)
    \/ FeederCancel(r)

Worker(r, w) ==
    \/ WorkerRecv(r, w)
    \/ WorkerClosed(r, w)
    \/ WorkerCancel(r, w)
    \/ ProbeDone(r, w)
    \/ WorkerSend(r, w)

\* Every step the program takes on its own: all but the arrival of a
\* request and the firing of the deadline.
Progress ==
    \E r \in Scrapes :
        \/ QueryFail(r) \/ QueryOK(r) \/ WaitReturn(r)
        \/ DrainRecv(r) \/ DrainApply(r) \/ DrainReturn(r) \/ Serve(r)
        \/ Feeder(r)
        \/ \E w \in WorkerIds : Worker(r, w)

\* The build of part_000: request contexts, cancellation.
Next ==
    \E r \in Scrapes :
        \/ Handler(r)
        \/ Deadline(r)
        \/ Feeder(r)
        \/ \E w \in WorkerIds : Worker(r, w)

\* The build of main.go: no contexts, a done channel and a timeout.
MHandler(r) ==
    \/ MHandlerStart(r)
    \/ MTimeout(r)
    \/ MDone(r)
    \/ DrainRecv(r)
    \/ DrainApply(r)
    \/ MDrainReturn(r)
    \/ Serve(r)

MCollect(r) ==
    \/ MQueryFail(r)
    \/ MQueryOK(r)
    \/ MWaitReturn(r)
    \/ FeederNext(r)
    \/ FeederEnd(r)
    \/ FeederSend(r)

MWorker(r, w) ==
    \/ WorkerRecv(r, w)
    \/ WorkerClosed(r, w)
    \/ ProbeDone(r, w)
    \/ WorkerSend(r, w)

NextMain ==
    \E r \in Scrapes :
        \/ MHandler(r)
        \/ MCollect(r)
        \/ \E w \in WorkerIds : MWorker(r, w)

InitCtx == Init /\ build = "ctx"

InitMain == Init /\ build = "main"

\* part_000 alone, main.go alone, and either of the two.
Spec == InitCtx /\ [][Next]_vars

SpecMain == InitMain /\ [][NextMain]_vars

SpecBoth == Init /\ [][Next \/ NextMain]_vars

\* Two overlapping scrapes of a store that holds one row for every worker
\* of a pool (the same bookmark each time), so that both pools can be busy
\* at once.
PoolStore == [i \in 1..workerCount |-> "a"]

InitPool ==
    /\ clients = Scrapes
    /\ store = PoolStore
    /\ build = "ctx"
    /\ hpc = [r \in Scrapes |-> "idle"]
    /\ cpc = [r \in Scrapes |-> "none"]
    /\ ctx = [r \in Scrapes |-> "none"]
    /\ rows = [r \in Scrapes |-> <<>>]
    /\ feeder = [r \in Scrapes |-> [pc |-> "none", url |-> NoURL]]
    /\ urlChan = [r \in Scrapes |-> [buf |-> <<>>, closed |-> FALSE]]
    /\ wk = [r \in Scrapes |-> [w \in WorkerIds |-> IdleWorker]]
    /\ metricsChan = <<>>
    /\ held = [r \in Scrapes |-> NoUpdate]
    /\ urlStatus = [u \in URLs |-> Absent]
    /\ sent = [r \in Scrapes |-> [u \in URLs |-> 0]]
    /\ finished = [r \in Scrapes |-> [live |-> 0, late |-> 0]]

SpecPool == InitPool /\ [][Next]_vars

\* part_000 under a fair scheduler: a goroutine that can take a step does.
FairSpec == InitCtx /\ [][Next]_vars /\ WF_vars(Progress)

\* part_000 under a fair scheduler and with a timer that fires: the context
\* of a request that is still being handled after 30 s is done.
FairSpecTimer ==
    /\ InitCtx
    /\ [][Next]_vars
    /\ WF_vars(Progress)
    /\ \A r \in Scrapes : WF_vars(Deadline(r))

\* The bookmarks table belongs to another program: a bookmark is deleted
\* between two queries.  A query that already ran keeps the rows it read.
RemoveBookmark ==
    /\ store # <<>>
    /\ store' = Tail(store)
    /\ UNCHANGED <<build, clients, hpc, cpc, ctx, rows, feeder, urlChan, wk,
                   metricsChan, held, urlStatus, sent, finished>>

\* part_000 with a bookmarks table that shrinks.
SpecEdit == InitCtx /\ [][Next \/ RemoveBookmark]_vars

\* main.go under a fair scheduler: a goroutine that can take a step does,
\* and the handler's 30 s timer fires if the handler is still waiting.
ProgressMain ==
    \E r \in Scrapes :
        \/ MTimeout(r) \/ MDone(r)
        \/ DrainRecv(r) \/ DrainApply(r) \/ MDrainReturn(r) \/ Serve(r)
        \/ MCollect(r)
        \/ \E w \in WorkerIds : MWorker(r, w)

FairSpecMain == InitMain /\ [][NextMain]_vars /\ WF_vars(ProgressMain)

\* ------------------------------------------------------------ the claims
\* What the claims speak of.
RunStarted(r) == hpc[r] \in {"collect", "update", "apply", "serve", "done"}

GaugeValues == (100..599) \cup {Sentinel}

\* The rows the run's iterator has yielded, and the URLs the feeder has
\* read from them.
Consumed(r) == SubSeq(store, 1, Len(store) - Len(rows[r]))

ReadURLs(r) == {Consumed(r)[i] : i \in 1..Len(Consumed(r))} \ {BadRow}

InFlight(r) == {w \in WorkerIds : wk[r][w].pc = "probe"}

\* C1: when a run has completed without its deadline firing (collectMetrics
\* returned nil, updateMetrics returned, the context is not done), the gauge
\* vector holds a value in 100..599 or 0 for every URL the feeder read.
C1_CompletedRunHasEntries ==
    \A r \in Scrapes :
        hpc[r] = "serve" /\ ~ctxDone(r) =>
            \A u \in ReadURLs(r) : urlStatus[u].status \in GaugeValues

\* C2: the handler ends in the server error only out of the failed query;
\* once the query has succeeded collectMetrics returns nil whatever happens
\* to rows, probes and the deadline, and the handler goes through the drain
\* pass to serving.
C2_ErrorOnlyWhenQueryFails ==
    [][\A r \in Scrapes :
          /\ hpc'[r] = "error" /\ hpc[r] # "error" => hpc[r] = "query"
          /\ hpc[r] = "collect" /\ hpc'[r] # "collect" => hpc'[r] = "update"
          /\ hpc[r] \in {"update", "apply"} => hpc'[r] \in {"update", "apply", "serve"}
          /\ hpc[r] = "serve" => hpc'[r] \in {"serve", "done"}]_vars

\* A scrape that was served although its deadline fired, a row did not
\* scan and a probe failed.
C2_Witness ==
    \E r \in Scrapes, u \in URLs :
        /\ hpc[r] = "done" /\ ctx[r] = "deadline"
        /\ \E i \in 1..Len(store) : store[i] = BadRow
        /\ urlStatus[u].run = r /\ urlStatus[u].status = Sentinel

\* C3: a run whose query failed has started no worker and no feeder, has
\* issued no probe and received no update, the step that fails leaves the
\* gauge vector and the result channel as they were, and the handler takes
\* no step after it.
C3_QueryFailureHasNoEffect ==
    [][\A r \in Scrapes :
          hpc'[r] = "error" =>
              /\ hpc[r] \in {"query", "error"}
              /\ \A w \in WorkerIds : wk'[r][w] = IdleWorker
              /\ feeder'[r].pc = "none"
              /\ rows'[r] = <<>>
              /\ held'[r] = NoUpdate
              /\ finished'[r] = [live |-> 0, late |-> 0]
              /\ \A u \in URLs : sent'[r][u] = 0
              /\ hpc[r] # "error" =>
                     urlStatus' = urlStatus /\ metricsChan' = metricsChan]_vars

\* A failed query while the other scrape has results buffered.
C3_Witness ==
    \E r \in Scrapes : hpc[r] = "error" /\ metricsChan # <<>>

\* C4: in every state a run has at most workerCount probes in flight.
C4_ProbesBoundedByPool ==
    \A r \in Scrapes : Cardinality(InFlight(r)) <= workerCount

\* The whole pool of a run is probing while a further URL waits.
C4_Witness ==
    \E r \in Scrapes :
        Cardinality(InFlight(r)) = workerCount /\ urlChan[r].buf # <<>>

Exited(r) == \A w \in WorkerIds : wk[r][w].pc \in {"none", "exit"}

Count(q, u) == Cardinality({i \in 1..Len(q) : q[i] = u})

\* The items of URL u that run r has in hand: in the feeder, on the queue,
\* in a worker.
InHand(r, u) ==
    (IF feeder[r].url = u THEN 1 ELSE 0)
    + Count(urlChan[r].buf, u)
    + Cardinality({w \in WorkerIds : wk[r][w].url = u})

\* C5: once the deadline of a started run has fired, every worker exits,
\* collectMetrics and the drain pass return and the handler serves.
C5_DeadlineUnblocksRun ==
    \A r \in Scrapes :
        (RunStarted(r) /\ ctx[r] = "deadline") ~> (hpc[r] = "done" /\ Exited(r))

\* A scrape served after its deadline fired with the result channel full
\* and a finished probe's result dropped.
C5_Witness ==
    \E r \in Scrapes :
        /\ hpc[r] = "done" /\ ctx[r] = "deadline" /\ Exited(r)
        /\ Len(metricsChan) = metricsChanCap
        /\ finished[r].live > SumOver(sent[r], URLs)

\* C6: when the deadline of a started run fires before any of its probes
\* has returned, no value of the gauge vector comes from that run.
C6_NoEntryFromUnfinishedProbes ==
    \A r \in Scrapes :
        RunStarted(r) /\ ctx[r] = "deadline" /\ finished[r].live = 0 =>
            \A u \in URLs : urlStatus[u].run # r

\* C7: the gauge vector never replaces the value of a result by the value
\* of a result that was put on the result channel earlier.
C7_LaterEmittedWins ==
    [][\A u \in URLs : urlStatus'[u].seq >= urlStatus[u].seq]_vars

\* C7, amended: a Set writes the value of the update it holds, and when it
\* overwrites a value that the same drain pass wrote, the update it holds
\* was put on the result channel later than the one it overwrites.
C7_OneDrainKeepsEmissionOrder ==
    [][\A r \in Scrapes :
          hpc[r] = "apply" /\ hpc'[r] = "update" =>
              /\ urlStatus'[held[r].url].status = held[r].status
              /\ urlStatus[held[r].url].by = r =>
                     held[r].seq > urlStatus[held[r].url].seq]_vars

\* A drain pass about to overwrite a value it wrote itself.
C7_Witness ==
    \E r \in Scrapes :
        /\ hpc[r] = "apply"
        /\ urlStatus[held[r].url].by = r
        /\ urlStatus[held[r].url].status # held[r].status

\* C8: within one run no URL gets two results.
C8_OneResultPerRunAndURL ==
    \A r \in Scrapes, u \in URLs : sent[r][u] <= 1

\* C8, amended: the results a run has put on the result channel for a URL,
\* together with the items of that URL it still has in hand, are at most
\* the rows of that URL its feeder has read: one result at most per row.
C8_OneResultPerRow ==
    \A r \in Scrapes, u \in URLs :
        sent[r][u] + InHand(r, u) <= Count(Consumed(r), u)

\* A run that has put two results for one URL on the result channel.
C8_Witness ==
    \E r \in Scrapes, u \in URLs : sent[r][u] = 2 /\ Count(store, u) = 2

\* C9: in either build, updateMetrics on an empty result channel can take
\* its return at once, and the step it takes there is the return, with the
\* gauge vector and the channel left as they were.
C9_EmptyDrainIsNoOp ==
    /\ [](\A r \in Scrapes :
             hpc[r] = "update" /\ metricsChan = <<>> =>
                 ENABLED (DrainReturn(r) \/ MDrainReturn(r)))
    /\ [][\A r \in Scrapes :
             hpc[r] = "update" /\ metricsChan = <<>> /\ hpc'[r] # "update" =>
                 /\ hpc'[r] = "serve"
                 /\ urlStatus' = urlStatus
                 /\ metricsChan' = <<>>
                 /\ held' = held]_vars

\* Two drain passes, one after the other, have returned on the empty
\* channel and the gauge vector is as it was at the start.
C9_Witness ==
    \E r \in Scrapes, q \in Scrapes :
        /\ r # q /\ hpc[r] = "done" /\ hpc[q] = "serve"
        /\ metricsChan = <<>>
        /\ \A u \in URLs : urlStatus[u] = Absent

\* C10: a run that is not cancelled comes to the return of collectMetrics.
C10_PoolQuiescesWithoutCancel ==
    \A r \in Scrapes : (hpc[r] = "collect") ~> (hpc[r] = "update" \/ ctxDone(r))

\* C11: once the context of a run is done, no worker of the run takes a
\* further URL off the URL queue or enters checkURL.
C11_NoDequeueAfterCancel ==
    [][\A r \in Scrapes, w \in WorkerIds :
          ctxDone(r) /\ wk[r][w].pc = "recv" => wk'[r][w].pc # "probe"]_vars

DrainStarted(r) == hpc[r] \in {"update", "apply", "serve", "done"}

\* C12: the drain pass of a run starts only after every worker of the run has
\* exited, whether the run completed or its deadline fired; from then on no
\* worker of the run holds a result or puts one on the result channel.
C12_DrainAfterJoin ==
    /\ [](\A r \in Scrapes :
             DrainStarted(r) =>
                 \A w \in WorkerIds : wk[r][w].pc \in {"none", "exit"})
    /\ [][\A r \in Scrapes :
             DrainStarted(r) => /\ sent'[r] = sent[r]
                                /\ wk'[r] = wk[r]]_vars

C12_Witness ==
    \E r \in Scrapes :
        /\ hpc[r] = "apply"
        /\ ctx[r] = "deadline"
        /\ \E w \in WorkerIds : wk[r][w].pc = "exit"
        /\ \E u \in URLs : sent[r][u] > 0

\* C13: every drain pass, the one after the deadline included, returns with
\* the result channel empty, each result it received having been Set.
C13_DrainEmptiesChannel ==
    [][\A r \in Scrapes :
          /\ hpc[r] = "update" /\ hpc'[r] = "serve" => metricsChan = <<>>
          /\ hpc[r] = "apply" /\ hpc'[r] # "apply" =>
                 /\ hpc'[r] = "update"
                 /\ urlStatus'[held[r].url].seq = held[r].seq]_vars

\* C13 (amended): a drain pass that returns while the context of its run is
\* not done returns with the result channel empty, and every result a pass
\* receives is Set before the pass receives again or returns.
C13_LiveDrainEmptiesChannel ==
    [][\A r \in Scrapes :
          /\ hpc[r] = "update" /\ hpc'[r] = "serve" /\ ~ctxDone(r) =>
                 metricsChan = <<>>
          /\ hpc[r] = "apply" /\ hpc'[r] # "apply" =>
                 /\ hpc'[r] = "update"
                 /\ urlStatus'[held[r].url].seq = held[r].seq]_vars

C13_Witness ==
    \E r \in Scrapes :
        /\ hpc[r] = "serve"
        /\ ctx[r] = "live"
        /\ metricsChan = <<>>
        /\ \E u \in URLs : urlStatus[u].by = r /\ urlStatus[u].run = r

Holding(r) == {w \in WorkerIds : wk[r][w].pc = "send"}

\* C14: a worker that holds a finished probe leaves its send either by
\* putting exactly that result on the result channel, which needs room, or,
\* with the context done, by returning; while the context of a run is not
\* done, results sent plus workers holding one equals probes finished.
C14_NoDropWithoutCancel ==
    /\ [](\A r \in Scrapes :
             ~ctxDone(r) =>
                 SumOver(sent[r], URLs) + Cardinality(Holding(r))
                     = finished[r].live + finished[r].late)
    /\ [][\A r \in Scrapes, w \in WorkerIds :
             wk[r][w].pc = "send" /\ wk'[r][w] # wk[r][w] =>
                 \/ /\ ctxDone(r)
                    /\ wk'[r][w].pc = "exit"
                    /\ metricsChan' = metricsChan
                 \/ /\ Len(metricsChan) < metricsChanCap
                    /\ Len(metricsChan') = Len(metricsChan) + 1
                    /\ metricsChan'[Len(metricsChan')].url = wk[r][w].url
                    /\ metricsChan'[Len(metricsChan')].status = wk[r][w].status
                    /\ metricsChan'[Len(metricsChan')].run = r
                    /\ wk'[r][w].pc = "recv"]_vars

C14_Witness ==
    \E r \in Scrapes :
        /\ ~ctxDone(r)
        /\ Len(metricsChan) = metricsChanCap
        /\ Holding(r) # {}
        /\ urlChan[r].buf # <<>>

\* C15: the feeder of a run eventually returns; it closes the URL queue once,
\* as it returns, with the rows exhausted or the context done; nothing is
\* put on a closed queue; and a collectMetrics that returns with the context
\* not done returns after the feeder has read every row and returned.
C15_FeederTerminates ==
    /\ \A r \in Scrapes :
          feeder[r].pc \in {"next", "send"} ~> feeder[r].pc = "done"
    /\ [][\A r \in Scrapes :
             /\ urlChan[r].closed =>
                    /\ urlChan'[r].closed
                    /\ feeder'[r] = feeder[r]
                    /\ Len(urlChan'[r].buf) <= Len(urlChan[r].buf)
             /\ ~urlChan[r].closed /\ urlChan'[r].closed =>
                    /\ feeder[r].pc \in {"next", "send"}
                    /\ feeder'[r].pc = "done"
                    /\ rows[r] = <<>> \/ ctxDone(r)
             /\ hpc[r] = "collect" /\ hpc'[r] = "update" /\ ~ctxDone(r) =>
                    /\ feeder[r].pc = "done"
                    /\ rows[r] = <<>>]_vars

C15_Witness ==
    \E r \in Scrapes :
        /\ feeder[r].pc = "done"
        /\ urlChan[r].closed
        /\ urlChan[r].buf # <<>>
        /\ rows[r] # <<>>
        /\ hpc[r] = "done"

ProbesInFlight == SumOver([r \in Scrapes |-> Cardinality(InFlight(r))], Scrapes)

\* C16: with overlapping scrapes, the workers of all runs that are inside
\* checkURL at one instant are at most workerCount.
C16_ProcessWideProbeBound == ProbesInFlight <= workerCount

\* C16 (amended): each run has at most workerCount workers inside checkURL,
\* so the process has at most workerCount for every collection run that is
\* under way.
C16_ProbeBoundPerRun ==
    /\ \A r \in Scrapes : Cardinality(InFlight(r)) <= workerCount
    /\ ProbesInFlight
           <= workerCount * Cardinality({r \in Scrapes : hpc[r] = "collect"})

C16_Witness ==
    /\ \A r \in Scrapes : hpc[r] = "collect" /\ ~ctxDone(r)
    /\ ProbesInFlight = workerCount * Cardinality(Scrapes)

\* C17: every result a drain pass receives and applies was sent by a worker
\* of the run of the same scrape.
C17_DrainAppliesOwnResults ==
    /\ \A r \in Scrapes : held[r] # NoUpdate => held[r].run = r
    /\ \A u \in URLs : urlStatus[u] # Absent => urlStatus[u].by = urlStatus[u].run

\* C18: whenever no request is being handled the result channel is empty.
C18_ChannelEmptyBetweenScrapes ==
    (\A r \in Scrapes : hpc[r] \in {"idle", "done", "error"}) => metricsChan = <<>>

\* C19: a URL that has a value in the gauge vector keeps having one; a value
\* changes only when a drain pass Sets the result it holds for that URL, to
\* the status of that result, whatever the bookmarks table holds by then.
C19_EntriesOnlyWrittenByResults ==
    [][\A u \in URLs :
          /\ urlStatus[u] # Absent => urlStatus'[u] # Absent
          /\ urlStatus'[u] # urlStatus[u] =>
                 \E r \in Scrapes :
                     /\ hpc[r] = "apply" /\ hpc'[r] = "update"
                     /\ held[r].url = u
                     /\ urlStatus'[u].status = held[r].status
                     /\ urlStatus'[u].by = r]_vars

C19_Witness ==
    \E r1, r2 \in Scrapes, u \in URLs :
        /\ r1 # r2
        /\ urlStatus[u].run = r1
        /\ store = <<>>
        /\ hpc[r1] = "done"
        /\ hpc[r2] = "done" /\ ctx[r2] = "cancelled"
        /\ finished[r2].live = 0 /\ finished[r2].late = 0

\* The handler of main.go left its select through <-timeout: it went on
\* while collectMetrics had not handed over its done signal.
TookTimeout(r) ==
    /\ hpc[r] \in {"update", "apply", "serve", "done"}
    /\ cpc[r] # "exit"

\* C20: in main.go, the collectMetrics goroutine of every scrape and all its
\* workers eventually return, also when the handler took the timeout branch,
\* and after the handler took the timeout branch no worker of the run sends
\* a result.
C20_LegacyRunTerminates ==
    /\ \A r \in Scrapes :
          cpc[r] = "query" ~> (cpc[r] = "exit" /\ Exited(r))
    /\ [][\A r \in Scrapes : TookTimeout(r) => sent'[r] = sent[r]]_vars
====
